---- MODULE Spec2Model ----
(***************************************************************************)
(* Model of the POST /llamaquery handler of src/llamaquery_api.py: request *)
(* validation, company-name resolution, the bounded retry loop around the  *)
(* remote retrieval call, normalization of the retrieved nodes and the     *)
(* company filter.  One request is followed from the parsed JSON body to   *)
(* its response (or to the exception that leaves the handler).             *)
(*                                                                         *)
(* Python strings are sequences of one-character strings, so that lower(), *)
(* strip(), replace() and the substring test are computed, not assumed.    *)
(***************************************************************************)
EXTENDS Integers, Sequences, FiniteSets, TLC

\* Longest node sequence the remote retrieval call returns in the model.
MaxNodes == 2

\* range(3) of the retry loop.
MaxAttempts == 3

\* asyncio.sleep(2): seconds of one backoff delay.
BackoffSeconds == 2

(***************************************************************************)
(* Python values: None, str, int.  dict.get of an absent key and of a key  *)
(* bound to null both give None, so the two are one value here.            *)
(***************************************************************************)
None == [t |-> "none", s |-> <<>>, n |-> 0]

Str(s) == [t |-> "str", s |-> s, n |-> 0]

Num(n) == [t |-> "int", s |-> <<>>, n |-> n]

\* bool(v) of a Python value.
Truthy(v) == \/ (v.t = "str" /\ Len(v.s) > 0)
             \/ (v.t = "int" /\ v.n # 0)

\* a or b
Or(a, b) == IF Truthy(a) THEN a ELSE b

\* str.lower() on one character of the model's alphabet.
LowerChar(c) ==
    CASE c = "A" -> "a"
      [] c = "B" -> "b"
      [] c = "C" -> "c"
      [] c = "D" -> "d"
      [] OTHER -> c

\* str.lower()
Lower(s) == [i \in 1..Len(s) |-> LowerChar(s[i])]

\* str.strip(): drop leading and trailing whitespace.
Strip(s) ==
    LET keep == {i \in 1..Len(s) : s[i] # " "}
    IN IF keep = {} THEN <<>>
       ELSE SubSeq(s, CHOOSE i \in keep : \A j \in keep : i <= j,
                      CHOOSE i \in keep : \A j \in keep : i >= j)

RECURSIVE Replace(_, _)
\* str.replace(" ", rep)
Replace(s, rep) ==
    IF Len(s) = 0 THEN <<>>
    ELSE (IF Head(s) = " " THEN rep ELSE <<Head(s)>>) \o Replace(Tail(s), rep)

\* v in h, for two strings.
Contains(h, v) ==
    \E i \in 0..(Len(h) - Len(v)) : SubSeq(h, i + 1, i + Len(v)) = v

(***************************************************************************)
(* normalize_variants(value): the set of match candidates.                 *)
(***************************************************************************)
normalize_variants(value) ==
    IF ~Truthy(value) THEN {}
    ELSE LET v == Lower(Strip(value.s))
         IN {v, Replace(v, <<"%", "2", "0">>), Replace(v, <<"_">>), Replace(v, <<>>)}

(***************************************************************************)
(* Request bodies.  A filters / preFilters payload is absent (None) or a   *)
(* JSON object with a set of keys; when it has the key "filters", `list`   *)
(* is that list, each entry an object that has a "value" or not.           *)
(***************************************************************************)
NoPayload == [t |-> "none", keys |-> {}, list |-> <<>>]

Dict(keys, list) == [t |-> "dict", keys |-> keys, list |-> list]

Entry(v) == [has_value |-> TRUE, value |-> v]

EntryNoValue == [has_value |-> FALSE, value |-> None]

\* bool(payload): None and {} are falsy.
PayloadTruthy(p) == p.t = "dict" /\ p.keys # {}

QueryValues == {None, Str(<<>>), Str(<<"q">>)}

FiltersValues ==
    { NoPayload,
      Dict({}, <<>>),
      Dict({"operator"}, <<>>),
      Dict({"filters"}, <<>>),
      Dict({"filters"}, <<EntryNoValue>>),
      Dict({"filters"}, <<Entry(Str(<<>>))>>),
      Dict({"filters"}, <<Entry(Str(<<"A">>))>>) }

PreFiltersValues ==
    { NoPayload,
      Dict({"filters"}, <<>>),
      Dict({"filters"}, <<Entry(Str(<<"B">>))>>) }

CompanyValues == {None, Str(<<>>), Str(<<" ">>), Str(<<"C", " ", "d">>)}

Requests ==
    [query : QueryValues, filters : FiltersValues,
     preFilters : PreFiltersValues, company : CompanyValues]

(***************************************************************************)
(* Retrieved nodes.  A node has (or lacks) a `text` attribute, may wrap an *)
(* inner `node`, and it or the inner node has (or lacks) `metadata`.       *)
(***************************************************************************)
NoMeta == [t |-> "absent", file_name |-> None, filename |-> None,
           document_title |-> None, web_url |-> None]

NullMeta == [NoMeta EXCEPT !.t = "none"]

Meta(fn, f, dt, url) == [t |-> "dict", file_name |-> fn, filename |-> f,
                         document_title |-> dt, web_url |-> url]

NoAttr == [has |-> FALSE, v |-> None]

Attr(v) == [has |-> TRUE, v |-> v]

Plain(text, meta) ==
    [text |-> text, node |-> [has |-> FALSE, metadata |-> NoMeta], metadata |-> meta]

Wrapped(text, inner) ==
    [text |-> text, node |-> [has |-> TRUE, metadata |-> inner], metadata |-> NoMeta]

ZZ == Str(<<"z", "z">>)

Nodes ==
    { Plain(NoAttr, NoMeta),
      Plain(Attr(None), NullMeta),
      Plain(Attr(Str(<<"x", "C", " ", "D">>)), Meta(None, None, None, None)),
      Plain(Attr(ZZ), Meta(Str(<<"C", "_", "d">>), None, None, None)),
      Plain(Attr(ZZ), Meta(Str(<<>>), Str(<<"c", "D", "x">>), None, None)),
      Plain(Attr(ZZ), Meta(Num(0), None, Str(<<"A">>), None)),
      Plain(Attr(ZZ), Meta(None, None, None, Str(<<"c", "%", "2", "0", "D">>))),
      Plain(Attr(ZZ), Meta(Num(5), None, None, None)),
      Plain(Attr(Str(<<"a">>)), Meta(None, None, None, Num(7))),
      Wrapped(Attr(ZZ), Meta(Str(<<"b">>), None, None, None)) }

RECURSIVE SeqsUpTo(_, _)
\* All sequences over S of length 0..n.
SeqsUpTo(S, n) ==
    IF n = 0 THEN {<<>>}
    ELSE LET shorter == SeqsUpTo(S, n - 1)
         IN shorter \cup {Append(q, x) : q \in {r \in shorter : Len(r) = n - 1}, x \in S}

VARIABLES
    data,              \* the parsed JSON body
    pc,                \* where the handler is
    query,
    company_value,
    company_variants,
    attempt,           \* loop variable of the retry loop
    nodes,             \* what the retrieval call returned
    results,
    filtered_results,
    response,          \* the body returned, or the exception that escaped
    log                \* retrieval calls and backoff delays, in order

vars == <<data, pc, query, company_value, company_variants, attempt, nodes,
          results, filtered_results, response, log>>

NoResponse ==
    [kind |-> "none", error |-> <<>>, exc |-> "", company |-> None,
     results |-> <<>>, has_message |-> FALSE]

\* {"error": <parts joined>}
ErrorBody(parts) == [NoResponse EXCEPT !.kind = "error", !.error = parts]

\* An exception leaves the handler: no body is returned.
Unhandled(exc) == [NoResponse EXCEPT !.kind = "unhandled", !.exc = exc]

\* {"company": ..., "results": ...} with or without the "message" key;
\* the message is f"No relevant chunks found for '{company}'."
SuccessBody(company, res, msg) ==
    [NoResponse EXCEPT !.kind = "success", !.company = company,
                       !.results = res, !.has_message = msg]

Init ==
    /\ data \in Requests
    /\ pc = "start"
    /\ query = None
    /\ company_value = None
    /\ company_variants = {}
    /\ attempt = 0
    /\ nodes = <<>>
    /\ results = <<>>
    /\ filtered_results = <<>>
    /\ response = NoResponse
    /\ log = <<>>

(***************************************************************************)
(* Lines 33-37: filters_payload and the value of its first entry.  The     *)
(* subscript [0] of an empty list raises IndexError.                       *)
(***************************************************************************)
filters_payload(d) ==
    IF PayloadTruthy(d.filters) THEN d.filters ELSE d.preFilters

FirstValue(d) ==
    LET fp == filters_payload(d)
    IN IF PayloadTruthy(fp) /\ "filters" \in fp.keys
       THEN IF Len(fp.list) = 0
            THEN [raised |-> TRUE, value |-> None]
            ELSE [raised |-> FALSE,
                  value |-> IF fp.list[1].has_value THEN fp.list[1].value ELSE None]
       ELSE [raised |-> FALSE, value |-> None]

\* Lines 38-39: the fallback to the direct `company` field.
ResolveCompany(d) ==
    LET first == FirstValue(d).value
    IN IF ~Truthy(first) THEN Or(d.company, Str(<<>>)) ELSE first

\* Faulty variant of line 29: `if query is None`.
QueryMissing_NoneOnly(q) == q.t = "none"

\* Line 29: `if not query`.
QueryMissing(q) == ~Truthy(q)

(***************************************************************************)
(* Lines 27-56: validation, up to the first await of the retry loop.       *)
(***************************************************************************)
Validate ==
    /\ pc = "start"
    /\ query' = data.query
    /\ IF QueryMissing(data.query)
       THEN /\ response' = ErrorBody(<<"Missing 'query' in request body">>)
            /\ pc' = "done"
            /\ UNCHANGED <<company_value, company_variants>>
       ELSE IF FirstValue(data).raised
       THEN /\ response' = Unhandled("IndexError")
            /\ pc' = "done"
            /\ UNCHANGED <<company_value, company_variants>>
       ELSE IF ~Truthy(ResolveCompany(data))
       THEN /\ response' = ErrorBody(<<"Missing 'company' name in payload">>)
            /\ company_value' = ResolveCompany(data)
            /\ pc' = "done"
            /\ UNCHANGED company_variants
       ELSE /\ company_value' = ResolveCompany(data)
            /\ company_variants' = normalize_variants(ResolveCompany(data))
            /\ pc' = "retrieve"
            /\ UNCHANGED response
    /\ UNCHANGED <<data, attempt, nodes, results, filtered_results, log>>

\* One retrieval call, as the log records it.
Call(outcome, msg) == [ev |-> "call", outcome |-> outcome, msg |-> msg, secs |-> 0]

\* One backoff delay, as the log records it.
Sleep == [ev |-> "sleep", outcome |-> "", msg |-> "", secs |-> BackoffSeconds]

\* Faulty variant of line 63: a bare `except Exception`.
Caught_Any(kind) == TRUE

\* Line 63: the exception classes the except clause names.
Caught(kind) == kind \in {"RemoteProtocolError", "ReadTimeout"}

\* Faulty variant of line 64: `if attempt < 1`.
RetryAgain_Once(a) == a < 1

\* Line 64: `if attempt < 2`.
RetryAgain(a) == a < 2

\* What the retrieval call can raise.
Faults ==
    { [kind |-> "RemoteProtocolError", msg |-> "peer closed connection"],
      [kind |-> "ReadTimeout", msg |-> "read timed out"],
      [kind |-> "AuthenticationError", msg |-> "invalid api key"] }

(***************************************************************************)
(* Lines 74-88: the record of one node.                                    *)
(***************************************************************************)
MetadataOf(node) ==
    LET node_obj_metadata == IF node.node.has THEN node.node.metadata ELSE node.metadata
    IN IF node_obj_metadata.t = "dict" THEN node_obj_metadata ELSE NoMeta

Record(node) ==
    LET metadata == MetadataOf(node)
    IN [text |-> IF node.text.has THEN node.text.v ELSE Str(<<>>),
        file_name |-> Or(metadata.file_name,
                         Or(metadata.filename, metadata.document_title)),
        web_url |-> metadata.web_url]

\* (x or "").lower() raises AttributeError when x is truthy and not a str.
LowerRaises(x) == Truthy(x) /\ x.t # "str"

\* (x or "").lower()
LowerOrEmpty(x) == Lower(Or(x, Str(<<>>)).s)

MatchRaises(r) ==
    LowerRaises(r.text) \/ LowerRaises(r.file_name) \/ LowerRaises(r.web_url)

\* Faulty variant of lines 92-94: the fields are not lowercased.
match_company_CaseSensitive(variants, text, file_name, web_url) ==
    \E v \in variants :
        \/ Contains(Or(text, Str(<<>>)).s, v)
        \/ Contains(Or(file_name, Str(<<>>)).s, v)
        \/ Contains(Or(web_url, Str(<<>>)).s, v)

(***************************************************************************)
(* Lines 91-95: match_company, over the variants of the request.           *)
(***************************************************************************)
match_company(variants, text, file_name, web_url) ==
    LET text_lower == LowerOrEmpty(text)
        file_lower == LowerOrEmpty(file_name)
        url_lower  == LowerOrEmpty(web_url)
    IN \E v \in variants :
          Contains(text_lower, v) \/ Contains(file_lower, v) \/ Contains(url_lower, v)

\* Faulty variant of line 84: results.insert(0, ...) instead of append.
BuildResults_Reversed(ns) == [i \in 1..Len(ns) |-> Record(ns[Len(ns) + 1 - i])]

\* Lines 72-88: results, in the order of nodes.
BuildResults(ns) == [i \in 1..Len(ns) |-> Record(ns[i])]

\* Lines 97-99: the list comprehension over results.
FilterResults(rs, variants) ==
    SelectSeq(rs, LAMBDA r : match_company(variants, r.text, r.file_name, r.web_url))

(***************************************************************************)
(* Lines 71-114: normalization, filtering and the body returned, for the   *)
(* node sequence ns.  The list comprehension of lines 97-99 calls          *)
(* match_company on every record, so one record on which it raises ends    *)
(* the request.                                                            *)
(***************************************************************************)
Finish(ns) ==
    /\ nodes' = ns
    /\ results' = BuildResults(ns)
    /\ IF \E i \in 1..Len(ns) : MatchRaises(BuildResults(ns)[i])
       THEN /\ response' = Unhandled("AttributeError")
            /\ UNCHANGED filtered_results
       ELSE LET fr == FilterResults(BuildResults(ns), company_variants)
            IN /\ filtered_results' = fr
               /\ response' = IF Len(fr) = 0
                              THEN SuccessBody(company_value, <<>>, TRUE)
                              ELSE SuccessBody(company_value, fr, FALSE)
    /\ pc' = "done"

\* Faulty variant of line 62: the `break` is missing, so the loop calls again.
RetrieveOk_NoBreak ==
    /\ pc = "retrieve"
    /\ attempt < MaxAttempts
    /\ log' = Append(log, Call("ok", ""))
    /\ attempt' = attempt + 1
    /\ IF attempt + 1 < MaxAttempts
       THEN /\ \E ns \in SeqsUpTo(Nodes, MaxNodes) : nodes' = ns
            /\ UNCHANGED <<pc, results, filtered_results, response>>
       ELSE \E ns \in SeqsUpTo(Nodes, MaxNodes) : Finish(ns)
    /\ UNCHANGED <<data, query, company_value, company_variants>>

(***************************************************************************)
(* Lines 61-62 and 71-114: the retrieval call returns a node sequence, the *)
(* loop is left by `break`, and the handler runs to its return without     *)
(* another await.                                                          *)
(***************************************************************************)
RetrieveOk ==
    /\ pc = "retrieve"
    /\ attempt < MaxAttempts
    /\ \E ns \in SeqsUpTo(Nodes, MaxNodes) : Finish(ns)
    /\ log' = Append(log, Call("ok", ""))
    /\ UNCHANGED <<data, query, company_value, company_variants, attempt>>

(***************************************************************************)
(* Lines 63-69: the call raises RemoteProtocolError or ReadTimeout.        *)
(***************************************************************************)
RetrieveTransient ==
    /\ pc = "retrieve"
    /\ attempt < MaxAttempts
    /\ \E e \in Faults :
        /\ Caught(e.kind)
        /\ log' = Append(log, Call(e.kind, e.msg))
        /\ IF RetryAgain(attempt)
           THEN /\ pc' = "sleep"
                /\ UNCHANGED response
           ELSE /\ pc' = "done"
                /\ response' = ErrorBody(<<"Llama Cloud connection failed: ", e.msg>>)
    /\ UNCHANGED <<data, query, company_value, company_variants, attempt,
                   nodes, results, filtered_results>>

(***************************************************************************)
(* Line 61 raising anything the except clause of line 63 does not name.    *)
(***************************************************************************)
RetrieveOther ==
    /\ pc = "retrieve"
    /\ attempt < MaxAttempts
    /\ \E e \in Faults :
        /\ ~Caught(e.kind)
        /\ log' = Append(log, Call(e.kind, e.msg))
        /\ response' = Unhandled(e.kind)
    /\ pc' = "done"
    /\ UNCHANGED <<data, query, company_value, company_variants, attempt,
                   nodes, results, filtered_results>>

(***************************************************************************)
(* Lines 66-67: the backoff delay ends, the loop goes to its next round.   *)
(***************************************************************************)
Backoff ==
    /\ pc = "sleep"
    /\ log' = Append(log, Sleep)
    /\ attempt' = attempt + 1
    /\ pc' = "retrieve"
    /\ UNCHANGED <<data, query, company_value, company_variants, nodes,
                   results, filtered_results, response>>

Next ==
    \/ Validate
    \/ RetrieveOk
    \/ RetrieveTransient
    \/ RetrieveOther
    \/ Backoff

Spec == Init /\ [][Next]_vars

(***************************************************************************)
(* Vocabulary of the properties.                                           *)
(***************************************************************************)
CallsAt == {i \in 1..Len(log) : log[i].ev = "call"}

SleepsAt == {i \in 1..Len(log) : log[i].ev = "sleep"}

TransientKinds == {"RemoteProtocolError", "ReadTimeout"}

MissingQueryBody == ErrorBody(<<"Missing 'query' in request body">>)

MissingCompanyBody == ErrorBody(<<"Missing 'company' name in payload">>)

\* The value a request carries at <payload>.filters[0].value, None if there
\* is no such place in the body.
ValueAt(p) ==
    IF p.t = "dict" /\ "filters" \in p.keys /\ Len(p.list) >= 1 /\ p.list[1].has_value
    THEN p.list[1].value
    ELSE None

\* The first non-empty value in the order filters, preFilters, company.
ExpectedCompany(d) ==
    IF Truthy(ValueAt(d.filters)) THEN ValueAt(d.filters)
    ELSE IF Truthy(ValueAt(d.preFilters)) THEN ValueAt(d.preFilters)
    ELSE d.company

\* A field of a record as a string, null or absent being the empty string.
FieldStr(x) == IF x.t = "str" THEN x.s ELSE <<>>

\* v occurs in h, letter case ignored.
CIContains(h, v) ==
    \E i \in 0..(Len(h) - Len(v)) :
        \A j \in 1..Len(v) : LowerChar(h[i + j]) = LowerChar(v[j])

\* The membership predicate of the filter, over the variants of the request.
Mentions(r) ==
    \E v \in company_variants :
        \/ CIContains(FieldStr(r.text), v)
        \/ CIContains(FieldStr(r.file_name), v)
        \/ CIContains(FieldStr(r.web_url), v)

\* The records of the retrieved nodes, in retrieval order.
Retrieved == [i \in 1..Len(nodes) |-> Record(nodes[i])]

\* a is b with some positions left out.
IsSubsequence(a, b) ==
    \E f \in [1..Len(a) -> 1..Len(b)] :
        /\ \A i, j \in 1..Len(a) : i < j => f[i] < f[j]
        /\ \A i \in 1..Len(a) : a[i] = b[f[i]]

\* C1: a request whose query is absent or empty is answered with exactly the
\* missing-query error body, and no retrieval call or backoff delay is ever
\* made for it, whatever filters, preFilters and company hold.
C1_MissingQueryRejected ==
    data.query \in {None, Str(<<>>)} =>
        /\ log = <<>>
        /\ pc \in {"start", "done"}
        /\ pc = "done" => response = MissingQueryBody

C1_Witness ==
    /\ pc = "done"
    /\ data.query = Str(<<>>)
    /\ data.filters = Dict({"filters"}, <<>>)
    /\ Truthy(data.company)
    /\ response = MissingQueryBody

\* C2: a request with a non-empty query and no company name at any of the
\* three places is answered with the missing-company error body and no
\* retrieval call is made, also when a filters list is empty or its first
\* entry has no value.
C2_MissingCompanyRejected ==
    (/\ pc = "done"
     /\ Truthy(data.query)
     /\ ~Truthy(ExpectedCompany(data))) =>
        /\ response = MissingCompanyBody
        /\ log = <<>>

\* C3: the company name the handler goes on with is the first non-empty value
\* in the order filters.filters[0].value, preFilters.filters[0].value,
\* company (requests on which the resolution itself raises are left to C2).
C3_ResolutionPriority ==
    (/\ pc # "start"
     /\ Truthy(data.query)
     /\ response.exc # "IndexError"
     /\ Truthy(ExpectedCompany(data))) =>
        /\ company_value = ExpectedCompany(data)
        /\ response.kind = "success" => response.company = ExpectedCompany(data)

\* C4: when every retrieval attempt raises a caught transient fault, the
\* request ends after exactly 3 attempts and 2 backoff delays of 2 seconds,
\* one after the first and one after the second attempt, with the
\* connection-failed error body carrying the message of the third fault.
C4_RetryExhaustion ==
    (/\ pc = "done"
     /\ CallsAt # {}
     /\ \A i \in CallsAt : log[i].outcome \in TransientKinds) =>
        /\ Len(log) = 5
        /\ CallsAt = {1, 3, 5}
        /\ SleepsAt = {2, 4}
        /\ \A i \in SleepsAt : log[i].secs = 2
        /\ response = ErrorBody(<<"Llama Cloud connection failed: ", log[5].msg>>)

C4_Witness ==
    /\ pc = "done"
    /\ Len(log) = 5
    /\ \A i \in {1, 3, 5} : log[i].outcome \in TransientKinds
    /\ log[5].msg # log[3].msg
    /\ log[5].msg # log[1].msg
    /\ response = ErrorBody(<<"Llama Cloud connection failed: ", log[5].msg>>)

\* C5: when the first k attempts (k = 0, 1, 2) raise a caught transient fault
\* and attempt k+1 succeeds, there are exactly k+1 attempts and k backoff
\* delays, nothing is attempted or delayed after the success, and a body that
\* is returned is never an error body and is built from the nodes of that
\* attempt.
C5_RetryRecovery ==
    \A p \in CallsAt :
        log[p].outcome = "ok" =>
            /\ p = Len(log)
            /\ p \in {1, 3, 5}
            /\ \A i \in 1..(p - 1) :
                  IF i % 2 = 1
                  THEN log[i].ev = "call" /\ log[i].outcome \in TransientKinds
                  ELSE log[i].ev = "sleep"
            /\ response.kind # "error"
            /\ response.kind = "success" =>
                  /\ response.company = company_value
                  /\ \A i \in 1..Len(response.results) :
                        \E j \in 1..Len(nodes) : response.results[i] = Record(nodes[j])

C5_Witness ==
    /\ pc = "done"
    /\ Len(log) = 5
    /\ log[5].outcome = "ok"
    /\ response.kind = "success"
    /\ Len(response.results) = 2

\* C6: a fault of any other class raised by the retrieval call, on whichever
\* attempt, is the last thing that happens: no attempt and no delay follows
\* it, and the request ends in the propagated fault, not in an error body.
C6_OtherFaultPropagates ==
    \A p \in CallsAt :
        log[p].outcome \notin (TransientKinds \cup {"ok"}) =>
            /\ p = Len(log)
            /\ pc = "done"
            /\ response = Unhandled(log[p].outcome)

C6_Witness ==
    /\ pc = "done"
    /\ Len(log) = 5
    /\ log[1].outcome \in TransientKinds
    /\ log[3].outcome \in TransientKinds
    /\ log[5].outcome = "AuthenticationError"
    /\ response.kind = "unhandled"

\* C7: in every success body the results are the records of retrieved nodes,
\* in retrieval order, each node giving at most one record.
C7_OrderPreserved ==
    response.kind = "success" => IsSubsequence(response.results, Retrieved)

C7_Witness ==
    /\ response.kind = "success"
    /\ Len(response.results) = 2
    /\ response.results[1] # response.results[2]
    /\ response.results[1].file_name # None

\* C8: in every success body the results are exactly the records in which
\* some variant occurs, case ignored, in text, file_name or web_url (null
\* being the empty string), and the no-relevant-chunks message is there
\* exactly when no record is one of those.
C8_FilterMembership ==
    response.kind = "success" =>
        /\ response.results = SelectSeq(Retrieved, Mentions)
        /\ response.has_message <=> (\A i \in 1..Len(Retrieved) : ~Mentions(Retrieved[i]))

C8_Witness ==
    /\ response.kind = "success"
    /\ company_value = Str(<<"C", " ", "d">>)
    /\ Len(nodes) = 2
    /\ Len(response.results) = 1
    /\ response.results[1].web_url = Str(<<"c", "%", "2", "0", "D">>)
    /\ response.results[1].text = ZZ

\* C9: once the retrieval call has returned a node sequence, the request ends
\* in a success body, whatever the metadata values and texts of the nodes.
C9_NoFailureAfterRetrieval ==
    (/\ pc = "done"
     /\ \E p \in CallsAt : log[p].outcome = "ok") =>
        response.kind = "success"

\* C10: for a request that reaches the retrieval step every variant is a
\* non-empty string, so a record in the results holds a non-empty form of
\* the company name.
C10_VariantsNonEmpty ==
    (pc \in {"retrieve", "sleep"} \/ log # <<>>) =>
        /\ company_variants # {}
        /\ \A v \in company_variants : Len(v) > 0

====
